---------------------------- MODULE Spec2Model ----------------------------
(***************************************************************************)
(* Pump-selection data manager: the record synchronisation and audit       *)
(* logging protocol of DB_Editor.py (insert_pump_data, update_pump_data,   *)
(* delete_pump_data, bulk_delete_pumps, log_database_change) and of        *)
(* csv_importer.py (import_csv_to_supabase), run by independent user       *)
(* sessions against one hosted store.  Every call on the store is one      *)
(* atomic step; between two calls of one handler the other session may     *)
(* run.                                                                    *)
(***************************************************************************)
EXTENDS Integers, Naturals, Sequences, FiniteSets, TLC

VARIABLES
    store,      \* table pump_selection_data: the rows, in table order
    trail,      \* table audit_trail: the rows, in insertion order
    fr,         \* fr[s]: the frame (position and locals) of session s's handler
    event,      \* the last step: the session, the call it made on the store,
                \* whether the call succeeded, what the handler returned if it did
    applied,    \* history: how often the store applied each mutation <<operation, id>>
    left,       \* number of handler invocations the behaviour may still start
    probe,      \* the last call of a function made on its own: its arguments
                \* and what it gave back
    browser     \* browser[s]: the cookie supabase_session of session s, what
                \* get_user_session returned at the start of its page run,
                \* and where the run is

vars == <<store, trail, fr, event, applied, left, probe, browser>>

----------------------------------------------------------------------------
(* Bounds of the model *)

\* handler invocations in one behaviour of two sessions
MaxOps == 2
\* handler invocations in one behaviour of one session alone
MaxOpsSolo == 3
\* calls of log_database_change in one behaviour of the Change Recorder alone
MaxCalls == 1
\* length of the texts typed into a field
MaxLen == 4
\* instants of the clock in one behaviour of the live activity feed
MaxTime == 8

Sessions == {1, 2}

----------------------------------------------------------------------------
(* Values.  A Python / JSON value is a tagged tuple, so that values of     *)
(* different types can be compared: None, an int, a str (its characters).  *)

Null == <<"null">>
I(n) == <<"int", n>>
S(cs) == <<"str", cs>>
\* what pandas hands the CSV importer: a numpy integer, a missing cell
NpInt(n) == <<"np_int", n>>
NaN == <<"nan">>
\* a JSON text, by the value it encodes
J(d) == <<"json", d>>

IsNull(v) == v[1] = "null"
IsInt(v) == v[1] = "int"
IsStr(v) == v[1] = "str"
IsNpInt(v) == v[1] = "np_int"
\* a finite float, by its sign, its integer part and its fraction digits
Fl(neg, ip, fp) == <<"float", neg, ip, fp>>
IsFloat(v) == v[1] = "float"
\* a numpy.float64 that is not a number
NpNaN == <<"np_nan">>
\* a list and a dict as values inside a snapshot
L(items) == <<"list", items>>
D(d) == <<"dict", d>>
IsList(v) == v[1] = "list"
IsDict(v) == v[1] = "dict"

EmptyMap == [k \in {} |-> Null]

\* dict.get(key, default)
Get(d, k, default) == IF k \in DOMAIN d THEN d[k] ELSE default

\* d[k] = v on a dict
Put(d, k, v) == [x \in (DOMAIN d) \cup {k} |-> IF x = k THEN v ELSE d[x]]

\* del d[k]
Del(d, k) == [x \in (DOMAIN d) \ {k} |-> d[x]]

Digits == <<"0", "1", "2", "3", "4", "5", "6", "7", "8", "9">>

IsDigit(c) == \E i \in 1..10 : Digits[i] = c

DigitVal(c) == (CHOOSE i \in 1..10 : Digits[i] = c) - 1

RECURSIVE NatOf(_)
\* the number a non-empty sequence of digits denotes
NatOf(cs) ==
    IF cs = <<>> THEN 0
    ELSE NatOf(SubSeq(cs, 1, Len(cs) - 1)) * 10 + DigitVal(cs[Len(cs)])

RECURSIVE CharsOfNat(_)
\* str(n) for n >= 0
CharsOfNat(n) ==
    IF n < 10 THEN <<Digits[n + 1]>>
    ELSE Append(CharsOfNat(n \div 10), Digits[(n % 10) + 1])

\* str(n) for an int
CharsOfInt(n) == IF n < 0 THEN <<"-">> \o CharsOfNat(-n) ELSE CharsOfNat(n)

AllDigits(cs) == \A i \in 1..Len(cs) : IsDigit(cs[i])

\* position of the first "." of cs, 0 when there is none
FirstDot(cs) ==
    IF \E i \in 1..Len(cs) : cs[i] = "."
    THEN CHOOSE i \in 1..Len(cs) : cs[i] = "." /\ \A j \in 1..(i - 1) : cs[j] # "."
    ELSE 0

\* value.replace('.', '', 1)
RemoveFirstDot(cs) ==
    IF FirstDot(cs) = 0 THEN cs
    ELSE SubSeq(cs, 1, FirstDot(cs) - 1) \o SubSeq(cs, FirstDot(cs) + 1, Len(cs))

\* value.replace('.', '', 1).isdigit(): str.isdigit() is False on the empty string
LooksNumeric(cs) == RemoveFirstDot(cs) # <<>> /\ AllDigits(RemoveFirstDot(cs))

\* float(s) on a str: "num" with sign, integer part and fraction digits, the
\* specials "inf" and "nan", or "bad" (ValueError).  The grammar: an optional
\* sign, digits with at most one ".", at least one digit.
ParseFloat(cs) ==
    LET neg == cs # <<>> /\ cs[1] = "-"
        body == IF cs # <<>> /\ cs[1] \in {"-", "+"} THEN Tail(cs) ELSE cs
        dot == FirstDot(body)
        ip == IF dot = 0 THEN body ELSE SubSeq(body, 1, dot - 1)
        fp == IF dot = 0 THEN <<>> ELSE SubSeq(body, dot + 1, Len(body))
    IN  IF body = <<"i", "n", "f">> THEN [kind |-> "inf", neg |-> neg, ip |-> 0, fp |-> <<>>]
        ELSE IF body = <<"n", "a", "n">> THEN [kind |-> "nan", neg |-> neg, ip |-> 0, fp |-> <<>>]
        ELSE IF AllDigits(ip) /\ AllDigits(fp) /\ Len(ip) + Len(fp) > 0
             THEN [kind |-> "num", neg |-> neg, ip |-> NatOf(ip), fp |-> fp]
             ELSE [kind |-> "bad", neg |-> neg, ip |-> 0, fp |-> <<>>]

\* int(float(s)) rounding to the nearest integer
IntOfFloatStrRounding(cs) ==
    LET p == ParseFloat(cs)
        up == p.fp # <<>> /\ p.fp[1] \in {"5", "6", "7", "8", "9"}
        n == IF up THEN p.ip + 1 ELSE p.ip
    IN  CASE p.kind = "num" -> [res |-> "ok", val |-> IF p.neg THEN -n ELSE n]
          [] p.kind = "inf" -> [res |-> "OverflowError", val |-> 0]
          [] OTHER -> [res |-> "ValueError", val |-> 0]

\* int(float(s)) on a str: the integer part, the fraction dropped (truncation
\* towards zero); ValueError on a str that is no number and on nan,
\* OverflowError on inf.
IntOfFloatStr(cs) ==
    LET p == ParseFloat(cs)
    IN  CASE p.kind = "num" -> [res |-> "ok", val |-> IF p.neg THEN -p.ip ELSE p.ip]
          [] p.kind = "inf" -> [res |-> "OverflowError", val |-> 0]
          [] OTHER -> [res |-> "ValueError", val |-> 0]

\* int(value) on a finite float: the fraction dropped
IntOfFloat(v) == IF v[2] THEN -v[3] ELSE v[3]

\* str(value)
Str(v) ==
    CASE IsStr(v) -> v
      [] IsInt(v) \/ IsNpInt(v) -> S(CharsOfInt(v[2]))
      [] v = NaN -> S(<<"n", "a", "n">>)
      [] OTHER -> S(<<"N", "o", "n", "e">>)

----------------------------------------------------------------------------
(* The table and the per-column type policy *)

Columns == {"DB ID", "Model No.", "Frequency (Hz)"}

\* the order in which the forms fill a dict, hence the order dicts iterate in
ColOrder == <<"DB ID", "Model No.", "Frequency (Hz)">>

\* the integer-policy columns (of the model's columns)
IntegerFields == {"Frequency (Hz)"}

\* value == "" or pd.isna(value)
IsEmptyValue(v) == IsNull(v) \/ v = NaN \/ v = S(<<>>)


\* insert_pump_data's treatment of one field: "set" the cleaned value, "skip"
\* the field (ValueError caught), or "raise" (an exception the field's
\* try/except does not catch, which leaves the handler through its outer
\* except).
InsertField(key, value) ==
    IF IsEmptyValue(value) THEN [res |-> "set", val |-> Null]
    ELSE IF key \in IntegerFields
    THEN IF IsStr(value)
         THEN LET c == IntOfFloatStr(value[2])
              IN  CASE c.res = "ok" -> [res |-> "set", val |-> I(c.val)]
                    [] c.res = "ValueError" -> [res |-> "skip", val |-> Null]
                    [] OTHER -> [res |-> "raise", val |-> Null]
         ELSE IF IsFloat(value) THEN [res |-> "set", val |-> I(IntOfFloat(value))]
         ELSE [res |-> "set", val |-> value]
    ELSE [res |-> "set", val |-> Str(value)]

\* the clean_data insert_pump_data builds: the new identifier first, then the
\* fields of pump_data in turn
InsertClean(pump_data, new_id) ==
    LET kept == {k \in DOMAIN pump_data : InsertField(k, pump_data[k]).res = "set"}
    IN  [k \in {"DB ID"} \cup kept |->
            IF k \in kept THEN InsertField(k, pump_data[k]).val ELSE I(new_id)]

InsertRaises(pump_data) ==
    \E k \in DOMAIN pump_data : InsertField(k, pump_data[k]).res = "raise"

\* no key is left out of clean_data
UpdSkipsNoKey(key) == FALSE

\* update_pump_data leaves this key out of clean_data
UpdSkipsKey(key) == key = "DB ID"

\* update_pump_data's treatment of one field
UpdateField(key, value) ==
    IF IsEmptyValue(value) THEN [res |-> "set", val |-> Null]
    ELSE IF key \in IntegerFields
    THEN IF IsInt(value) THEN [res |-> "set", val |-> value]
         ELSE IF IsFloat(value) THEN [res |-> "set", val |-> I(IntOfFloat(value))]
         ELSE IF IsStr(value) /\ LooksNumeric(value[2])
         THEN LET c == IntOfFloatStr(value[2])
              IN  CASE c.res = "ok" -> [res |-> "set", val |-> I(c.val)]
                    [] c.res = "ValueError" -> [res |-> "skip", val |-> Null]
                    [] OTHER -> [res |-> "raise", val |-> Null]
         ELSE [res |-> "set", val |-> Null]
    ELSE [res |-> "set", val |-> Str(value)]

\* the clean_data update_pump_data builds
UpdateClean(pump_data) ==
    LET kept == {k \in DOMAIN pump_data :
                    ~UpdSkipsKey(k) /\ UpdateField(k, pump_data[k]).res = "set"}
    IN  [k \in kept |-> UpdateField(k, pump_data[k]).val]

\* the keys of a dict in iteration order
KeysInOrder(d) == SelectSeq(ColOrder, LAMBDA k : k \in DOMAIN d)

----------------------------------------------------------------------------
(* The store.  The columns are typed and "DB ID" is the primary key: a      *)
(* value is cast to its column's type or the call is refused.              *)

ColType(c) == IF c = "Model No." THEN "text" ELSE "integer"

\* a text cast to integer: an optional sign and digits
IsIntegerText(cs) ==
    LET body == IF cs # <<>> /\ cs[1] \in {"-", "+"} THEN Tail(cs) ELSE cs
    IN  body # <<>> /\ AllDigits(body)

IntegerOfText(cs) ==
    IF cs[1] = "-" THEN -NatOf(Tail(cs))
    ELSE IF cs[1] = "+" THEN NatOf(Tail(cs)) ELSE NatOf(cs)

Coerce(c, v) ==
    CASE IsNull(v) -> [ok |-> TRUE, val |-> Null]
      [] ColType(c) = "text" -> [ok |-> TRUE, val |-> Str(v)]
      [] IsInt(v) -> [ok |-> TRUE, val |-> v]
      [] IsStr(v) /\ IsIntegerText(v[2]) -> [ok |-> TRUE, val |-> I(IntegerOfText(v[2]))]
      [] OTHER -> [ok |-> FALSE, val |-> Null]

Castable(d) == DOMAIN d \subseteq Columns /\ \A k \in DOMAIN d : Coerce(k, d[k]).ok

IdsOf(rows) == {rows[i]["DB ID"] : i \in 1..Len(rows)}

\* the primary key: no null identifier, no identifier twice
KeyHolds(rows) ==
    /\ \A i \in 1..Len(rows) : IsInt(rows[i]["DB ID"])
    /\ \A i, j \in 1..Len(rows) : rows[i]["DB ID"] = rows[j]["DB ID"] => i = j

\* select("*").eq('"DB ID"', db_id)
SelectEq(rows, db_id) == SelectSeq(rows, LAMBDA r : r["DB ID"] = I(db_id))

\* insert(record): the outcome and the table after it
StoreInsert(rows, record) ==
    LET row == [c \in Columns |->
                    IF c \in DOMAIN record THEN Coerce(c, record[c]).val ELSE Null]
        ok == Castable(record) /\ KeyHolds(Append(rows, row))
    IN  [ok |-> ok, rows |-> IF ok THEN Append(rows, row) ELSE rows]

\* update(patch).eq('"DB ID"', db_id)
StoreUpdate(rows, patch, db_id) ==
    LET new == [i \in 1..Len(rows) |->
                    IF rows[i]["DB ID"] = I(db_id)
                    THEN [c \in Columns |->
                            IF c \in DOMAIN patch THEN Coerce(c, patch[c]).val
                            ELSE rows[i][c]]
                    ELSE rows[i]]
        ok == Castable(patch) /\ KeyHolds(new)
    IN  [ok |-> ok, rows |-> IF ok THEN new ELSE rows]

\* delete().eq('"DB ID"', db_id)
StoreDelete(rows, db_id) == SelectSeq(rows, LAMBDA r : r["DB ID"] # I(db_id))

\* select('"DB ID"').order('"DB ID"', desc=True).limit(1): the greatest
\* identifier, as the one-row answer, or the empty answer
MaxIdAnswer(rows) ==
    IF rows = <<>> THEN <<>>
    ELSE <<CHOOSE v \in IdsOf(rows) : \A w \in IdsOf(rows) : w[2] <= v[2]>>

\* the greatest identifier taken as it is, without the increment
NextIdWithoutIncrement(answer) == IF answer # <<>> THEN answer[1][2] ELSE 1

\* identifiers counted from zero on an empty table
NextIdFromZero(answer) == IF answer # <<>> THEN answer[1][2] + 1 ELSE 0

\* the Identifier Allocator: new_id from the answer of the max query
NextId(answer) == IF answer # <<>> THEN answer[1][2] + 1 ELSE 1


----------------------------------------------------------------------------
(* The Change Recorder *)

\* the identity of a session's user, as the identity service reports it
Email(s) == IF s = 1 THEN "u1@example.com" ELSE "u2@example.com"

\* a session object: None, a dict or another object, with its keys or
\* attributes among email, username and id, and its str()
User(kind, fields, str) == [kind |-> kind, fields |-> fields, str |-> str]

NoUser == User("none", EmptyMap, "None")

\* bool(user): None and the empty dict are false
Truthy(user) == user.kind # "none" /\ ~(user.kind = "dict" /\ user.fields = EmptyMap)

\* get_user_session: the user object of the identity service, which has an
\* email attribute, or None without a session cookie or when the service
\* fails
GetUserSession(s, has_user) ==
    IF has_user
    THEN User("obj", [k \in {"email", "id"} |-> IF k = "email" THEN Email(s) ELSE "id-1"], "User")
    ELSE NoUser

\* the dict resolution with the email key dropped
UserEmailOfUsernameFirst(user) ==
    IF ~Truthy(user) THEN "anonymous"
    ELSE IF user.kind = "dict"
    THEN Get(user.fields, "username", Get(user.fields, "email", "unknown"))
    ELSE IF "username" \in DOMAIN user.fields THEN user.fields["username"]
    ELSE IF "email" \in DOMAIN user.fields THEN user.fields["email"]
    ELSE user.str

\* lines 76-91: user_email from the user object
UserEmailOf(user) ==
    IF ~Truthy(user) THEN "anonymous"
    ELSE IF user.kind = "dict"
    THEN Get(user.fields, "email", Get(user.fields, "username", "unknown"))
    ELSE IF "email" \in DOMAIN user.fields THEN user.fields["email"]
    ELSE IF "username" \in DOMAIN user.fields THEN user.fields["username"]
    ELSE user.str

\* user_email of log_database_change in session s
UserEmail(s, has_user) == UserEmailOf(GetUserSession(s, has_user))

RECURSIVE ConvertValue(_)
\* convert_to_serializable on one value of a snapshot: None, a dict, a list,
\* a numpy value (its item(): the int, the float nan), a value pd.isna()
\* holds of, a float, an int, anything else by its str()
ConvertValue(v) ==
    CASE IsNull(v) -> Null
      [] IsDict(v) -> D([k \in DOMAIN v[2] |-> ConvertValue(v[2][k])])
      [] IsList(v) -> L([i \in 1..Len(v[2]) |-> ConvertValue(v[2][i])])
      [] IsNpInt(v) -> I(v[2])
      [] v = NpNaN -> NaN
      [] v = NaN -> Null
      [] IsFloat(v) -> v
      [] IsInt(v) -> v
      [] OTHER -> Str(v)

\* convert_to_serializable on a snapshot (a dict)
ConvertToSerializable(d) == [k \in DOMAIN d |-> ConvertValue(d[k])]

\* the snapshot serialised whether it is there or not
PayloadOfAnything(data) == J(ConvertToSerializable(data))

\* json.dumps(convert_to_serializable(data)) if data else None, for old_data
\* and new_data: None and the empty dict both give None (an absent snapshot
\* is passed as the empty dict)
Payload(data) ==
    IF data = EmptyMap THEN Null ELSE J(ConvertToSerializable(data))

\* an upsert keyed on record_id: the entry of the same record is replaced
AuditUpsert(rows, audit_record) ==
    IF \E i \in 1..Len(rows) : rows[i].record_id = audit_record.record_id
    THEN [i \in 1..Len(rows) |->
            IF rows[i].record_id = audit_record.record_id THEN audit_record ELSE rows[i]]
    ELSE Append(rows, audit_record)

\* supabase.table("audit_trail").insert(audit_record)
AuditInsert(rows, audit_record) == Append(rows, audit_record)

\* lines 118-120: record_id.item() on a numpy value
RecordIdItem(record_id) == IF IsNpInt(record_id) THEN I(record_id[2]) ELSE record_id

\* lines 71-144, log_database_change(table_name, record_id, operation,
\* old_data, new_data) for the user of the session: the audit table after the
\* call, the value returned, whether an exception leaves the function, and
\* the audit_record sent to the store.  record_id is the value after lines
\* 118-120; `up` is whether the insert into audit_trail succeeds, `g` the
\* history fields of the entry.
RecordChange(rows, user, table_name, record_id, operation, old_data, new_data, up, g) ==
    LET audit_record ==
            [table_name |-> table_name, record_id |-> record_id,
             operation |-> operation, old_data |-> Payload(old_data),
             new_data |-> Payload(new_data), modified_by |-> UserEmailOf(user),
             g |-> g]
    IN  IF up THEN [trail |-> AuditInsert(rows, audit_record), ret |-> TRUE,
                    raised |-> FALSE, sent |-> <<audit_record>>]
        ELSE [trail |-> rows, ret |-> FALSE, raised |-> FALSE, sent |-> <<audit_record>>]

\* log_database_change with the failure propagating to the caller
LogDatabaseChangeRaising(rows, s, record_id, operation, old_data, new_data, has_user, up, g) ==
    LET audit_record ==
            [table_name |-> "pump_selection_data", record_id |-> record_id,
             operation |-> operation, old_data |-> Payload(old_data),
             new_data |-> Payload(new_data), modified_by |-> UserEmail(s, has_user),
             g |-> g]
    IN  IF up THEN [trail |-> AuditInsert(rows, audit_record), ret |-> TRUE, raised |-> FALSE]
        ELSE [trail |-> rows, ret |-> FALSE, raised |-> TRUE]

\* log_database_change(table_name="pump_selection_data", record_id, operation,
\* old_data, new_data): the audit table after the call, the value returned,
\* and whether an exception leaves the function.  `up` is whether the insert
\* into audit_trail succeeds, `g` the history fields of the entry.
LogDatabaseChange(rows, s, record_id, operation, old_data, new_data, has_user, up, g) ==
    RecordChange(rows, GetUserSession(s, has_user), "pump_selection_data", record_id,
                 operation, old_data, new_data, up, g)


----------------------------------------------------------------------------
(* Frames, results and history *)

\* a frame: the position pc and the locals of a handler, and its history:
\* whether it wrote to the table (wrote), whether its insert, update or
\* delete proper succeeded (mutated), the rows with its record's identifier
\* as its first select answered (seen), just before its first write (pre)
\* and just after its primary write (post), and whether no other session
\* wrote to the table between its start and its first write (quiet)
IdleFrame ==
    [pc |-> "idle", db_id |-> 0, new_id |-> 0,
     old_data |-> EmptyMap, clean_data |-> EmptyMap, todo |-> <<>>,
     problem_keys |-> {}, db_ids |-> <<>>, rows |-> <<>>,
     success_count |-> 0, error_count |-> 0,
     wrote |-> FALSE, mutated |-> FALSE, seen |-> <<>>, pre |-> <<>>, post |-> <<>>,
     quiet |-> TRUE]

\* bags of mutations
EmptyBag == [e \in {} |-> 0]

BagAdd(b, e) == [x \in (DOMAIN b) \cup {e} |-> IF x \in DOMAIN b THEN b[x] + (IF x = e THEN 1 ELSE 0) ELSE 1]

BagCount(b, e) == IF e \in DOMAIN b THEN b[e] ELSE 0

NoResult == [ok |-> FALSE, msg |-> "running", success_count |-> 0, error_count |-> 0]

\* no function has been called on its own
NoProbe == [fn |-> "none"]

\* every session is in a run of the editor page that has passed the login
\* gate
PastGate ==
    [s \in Sessions |-> [cookie |-> "token", user |-> GetUserSession(s, TRUE), run |-> "editor"]]

Result(ok, msg) == [ok |-> ok, msg |-> msg, success_count |-> 0, error_count |-> 0]

\* the history fields of an audit entry
Ghost(f, s) ==
    [mutated |-> f.mutated, seen |-> f.seen, pre |-> f.pre, post |-> f.post,
     quiet |-> f.quiet]

Event(s, call, ok, result) == [s |-> s, call |-> call, ok |-> ok, ret |-> result]

\* the frame after a successful write on the rows with identifier id;
\* primary: the write is the handler's insert, update or delete proper
MarkWrite(f, before, after, id, primary) ==
    [f EXCEPT !.wrote = TRUE,
              !.mutated = f.mutated \/ primary,
              !.pre = IF f.wrote THEN f.pre ELSE SelectEq(before, id),
              !.post = IF primary THEN SelectEq(after, id) ELSE f.post]

\* the frames after a step of session s that leaves it with frame f; a
\* write ends the quiet of the handlers that have not written yet
Frames(s, f, wrote) ==
    [t \in Sessions |->
        IF t = s THEN f
        ELSE IF wrote /\ fr[t].pc # "idle" /\ ~fr[t].wrote
             THEN [fr[t] EXCEPT !.quiet = FALSE]
             ELSE fr[t]]

\* the handler of session s returns `result` after `call`
Return(s, result, call, ok, wrote) ==
    /\ fr' = Frames(s, IdleFrame, wrote)
    /\ event' = Event(s, call, ok, result)
    /\ probe' = probe
    /\ browser' = browser

\* the handler of session s goes on with frame f after `call`
Goto(s, f, call, ok, wrote) ==
    /\ fr' = Frames(s, f, wrote)
    /\ event' = Event(s, call, ok, NoResult)
    /\ probe' = probe
    /\ browser' = browser

\* a handler starts
Begin(s) ==
    /\ fr[s].pc = "idle"
    /\ left > 0
    /\ left' = left - 1

----------------------------------------------------------------------------
(* Inputs *)

A1 == S(<<"A", "1">>)
B2 == S(<<"B", "2">>)

Row(id, model, freq) ==
    [c \in Columns |-> IF c = "DB ID" THEN I(id) ELSE IF c = "Model No." THEN model ELSE freq]

\* the identifiers a user may pick in the edit and delete forms
PickableIds == {1, 2}

\* what a caller may hand insert_pump_data: the number of the add-pump form's
\* number input, or a text that is no number
InsertInputs ==
    { [c \in {"Model No.", "Frequency (Hz)"} |-> IF c = "Model No." THEN A1 ELSE f] :
        f \in {I(50), S(<<"a", "b", "c">>)} }

\* what a caller may hand update_pump_data
UpdateInputs ==
    { [c \in {"Model No.", "Frequency (Hz)"} |->
            IF c = "Model No." THEN B2 ELSE S(<<"6", "0", ".", "2">>)],
      [c \in {"DB ID", "Frequency (Hz)"} |->
            IF c = "DB ID" THEN I(9) ELSE S(<<"a", "b", "c">>)] }

\* the selections the bulk-delete form may hand bulk_delete_pumps
BulkInputs == {<<2, 1>>}

CsvRowWith(id) ==
    [c \in Columns |->
        IF c = "DB ID" THEN NpInt(id) ELSE IF c = "Model No." THEN A1 ELSE NpInt(50)]

\* the rows a CSV file may hold
CsvInputs == {<<CsvRowWith(1), CsvRowWith(2)>>}

InitialStores == {<<>>, <<Row(1, A1, I(50))>>}

\* what the identity service may answer get_user_session inside a handler:
\* the page run has passed the login gate, the user is there
IdentityAnswers == {TRUE}

----------------------------------------------------------------------------
(* insert_pump_data *)

\* the except branch of insert_pump_data
InsertFailed(s, call) == Return(s, Result(FALSE, "error_adding_pump"), call, FALSE, FALSE)

\* lines 324-329, with the identifiers other sessions hold counted in
NewIdReserving(s) ==
    LET held == {I(fr[t].new_id) : t \in {u \in Sessions : u # s /\ fr[u].pc = "ins_insert"}}
        ids == IdsOf(store) \cup held
    IN  IF ids = {} THEN 1
        ELSE (CHOOSE v \in ids : \A w \in ids : w[2] <= v[2])[2] + 1

\* lines 324-329: new_id of session s, from the max query on the table
NewId(s) == NextId(MaxIdAnswer(store))

\* the failed max query answered with the first identifier
InsIdErrorFallingBack(s, pump_data) ==
    Goto(s, [IdleFrame EXCEPT !.pc = "ins_insert", !.new_id = 1,
                !.clean_data = InsertClean(pump_data, 1)],
         "select_max", FALSE, FALSE)

\* lines 333-336: the max query failed
InsIdError(s, pump_data) ==
    Return(s, Result(FALSE, "could_not_generate_db_id"), "select_max", FALSE, FALSE)

\* lines 321-371: the max query, the new identifier, the cleaning of the
\* fields; an exception of the cleaning leaves through the outer except
InsReadMaxOf(s, pump_data, up) ==
    LET new_id == NewId(s)
    IN  /\ Begin(s)
        /\ IF ~up THEN InsIdError(s, pump_data)
           ELSE IF InsertRaises(pump_data)
           THEN Return(s, Result(FALSE, "error_adding_pump"), "select_max", TRUE, FALSE)
           ELSE Goto(s, [IdleFrame EXCEPT !.pc = "ins_insert", !.new_id = new_id,
                            !.clean_data = InsertClean(pump_data, new_id)],
                     "select_max", TRUE, FALSE)
        /\ UNCHANGED <<store, trail, applied>>

InsReadMax(s) ==
    \E pump_data \in InsertInputs, up \in BOOLEAN : InsReadMaxOf(s, pump_data, up)

\* lines 374-389 with the failure of the insert swallowed
InsAfterInsertSwallowing(s, f, ok) ==
    Goto(s, [f EXCEPT !.pc = "ins_log"], "insert", ok, ok)

\* lines 374-389: after the insert call, go on to the audit entry, or leave
\* through the except branch
InsAfterInsert(s, f, ok) ==
    IF ok THEN Goto(s, [f EXCEPT !.pc = "ins_log"], "insert", TRUE, TRUE)
    ELSE InsertFailed(s, "insert")

\* line 374: the insert
InsInsert(s) ==
    /\ fr[s].pc = "ins_insert"
    /\ \E up \in BOOLEAN :
        LET f == fr[s]
            r == StoreInsert(store, f.clean_data)
            ok == up /\ r.ok
        IN  /\ store' = IF ok THEN r.rows ELSE store
            /\ applied' = IF ok THEN BagAdd(applied, <<"INSERT", f.new_id>>) ELSE applied
            /\ InsAfterInsert(s, IF ok THEN MarkWrite(f, store, r.rows, f.new_id, TRUE) ELSE f, ok)
    /\ UNCHANGED <<trail, left>>

\* lines 377-385: the audit entry, then the success result
InsLog(s) ==
    /\ fr[s].pc = "ins_log"
    /\ \E has_user \in IdentityAnswers, up \in BOOLEAN :
        LET f == fr[s]
            l == LogDatabaseChange(trail, s, f.new_id, "INSERT", EmptyMap,
                                   f.clean_data, has_user, up, Ghost(f, s))
        IN  /\ trail' = l.trail
            /\ IF l.raised THEN InsertFailed(s, "audit_insert")
               ELSE Return(s, Result(TRUE, "pump_data_added"), "audit_insert", l.ret, FALSE)
    /\ UNCHANGED <<store, applied, left>>

----------------------------------------------------------------------------
(* update_pump_data *)

\* the except branch of update_pump_data
UpdateFailed(s, call) == Return(s, Result(FALSE, "error_updating_pump"), call, FALSE, FALSE)

\* update_pump_data handing the new values as the old snapshot
UpdOldDataFromClean(f) == f.clean_data

\* line 479: the old_data update_pump_data hands the Change Recorder
UpdOldData(f) == f.old_data

\* line 480: the new_data update_pump_data hands the Change Recorder
UpdNewData(f) == f.clean_data

\* lines 462-469: after the trial updates, drop the problem keys; go on to
\* the update proper unless nothing is left
UpdAfterTrials(s, f, call, ok, wrote) ==
    LET clean_data == [k \in (DOMAIN f.clean_data) \ f.problem_keys |-> f.clean_data[k]]
    IN  IF clean_data = EmptyMap
        THEN Return(s, Result(FALSE, "no_valid_fields"), call, ok, wrote)
        ELSE Goto(s, [f EXCEPT !.pc = "upd_update", !.clean_data = clean_data],
                  call, ok, wrote)

\* the missing record passed over: the handler reports success
RecordNotFoundIgnored(s) ==
    Return(s, Result(TRUE, "pump_data_updated"), "select", TRUE, FALSE)

\* lines 397-398 and 496-497: the select found no record with the identifier
RecordNotFound(s) ==
    Return(s, Result(FALSE, "not_found"), "select", TRUE, FALSE)

\* lines 394-448: read the current record, clean the fields
UpdReadOf(s, db_id, pump_data, up) ==
    /\ Begin(s)
    /\ LET data == SelectEq(store, db_id)
           f == [IdleFrame EXCEPT !.pc = "upd_trial", !.db_id = db_id,
                    !.old_data = data[1], !.seen = data,
                    !.clean_data = UpdateClean(pump_data),
                    !.todo = KeysInOrder(UpdateClean(pump_data))]
       IN  IF ~up THEN UpdateFailed(s, "select")
           ELSE IF data = <<>> THEN RecordNotFound(s)
           ELSE IF f.todo = <<>> THEN UpdAfterTrials(s, f, "select", TRUE, FALSE)
           ELSE Goto(s, f, "select", TRUE, FALSE)
    /\ UNCHANGED <<store, trail, applied>>

UpdRead(s) ==
    \E db_id \in PickableIds, pump_data \in UpdateInputs, up \in BOOLEAN :
        UpdReadOf(s, db_id, pump_data, up)

\* lines 452-460: the trial update of one field
UpdTrial(s) ==
    /\ fr[s].pc = "upd_trial"
    /\ \E up \in BOOLEAN :
        LET f == fr[s]
            key == Head(f.todo)
            single_field == [k \in {key} |-> f.clean_data[key]]
            r == StoreUpdate(store, single_field, f.db_id)
            ok == up /\ r.ok
            g == [(IF ok THEN MarkWrite(f, store, r.rows, f.db_id, FALSE) ELSE f)
                    EXCEPT !.todo = Tail(f.todo),
                           !.problem_keys = IF ok THEN f.problem_keys
                                            ELSE f.problem_keys \cup {key}]
        IN  /\ store' = IF ok THEN r.rows ELSE store
            /\ IF g.todo = <<>> THEN UpdAfterTrials(s, g, "trial_update", ok, ok)
               ELSE Goto(s, g, "trial_update", ok, ok)
    /\ UNCHANGED <<trail, applied, left>>

\* lines 472-488: after the update call, go on to the audit entry, or leave
\* through the except branch
UpdAfterUpdate(s, f, ok) ==
    IF ok THEN Goto(s, [f EXCEPT !.pc = "upd_log"], "update", TRUE, TRUE)
    ELSE UpdateFailed(s, "update")

\* line 472: the update proper
UpdUpdate(s) ==
    /\ fr[s].pc = "upd_update"
    /\ \E up \in BOOLEAN :
        LET f == fr[s]
            r == StoreUpdate(store, f.clean_data, f.db_id)
            ok == up /\ r.ok
        IN  /\ store' = IF ok THEN r.rows ELSE store
            /\ applied' = IF ok /\ SelectEq(store, f.db_id) # <<>>
                          THEN BagAdd(applied, <<"UPDATE", f.db_id>>) ELSE applied
            /\ UpdAfterUpdate(s, IF ok THEN MarkWrite(f, store, r.rows, f.db_id, TRUE) ELSE f, ok)
    /\ UNCHANGED <<trail, left>>

\* lines 475-484: the audit entry, then the success result
UpdLog(s) ==
    /\ fr[s].pc = "upd_log"
    /\ \E has_user \in IdentityAnswers, up \in BOOLEAN :
        LET f == fr[s]
            l == LogDatabaseChange(trail, s, f.db_id, "UPDATE", UpdOldData(f),
                                   UpdNewData(f), has_user, up, Ghost(f, s))
        IN  /\ trail' = l.trail
            /\ IF l.raised THEN UpdateFailed(s, "audit_insert")
               ELSE Return(s, Result(TRUE, "pump_data_updated"), "audit_insert", l.ret, FALSE)
    /\ UNCHANGED <<store, applied, left>>

----------------------------------------------------------------------------
(* delete_pump_data *)

\* the except branch of delete_pump_data
DeleteFailed(s, call) == Return(s, Result(FALSE, "error_deleting_pump"), call, FALSE, FALSE)

\* lines 494-499: read the current record
DelRead(s) ==
    /\ Begin(s)
    /\ \E db_id \in PickableIds, up \in BOOLEAN :
        LET data == SelectEq(store, db_id)
        IN  IF ~up THEN DeleteFailed(s, "select")
            ELSE IF data = <<>> THEN RecordNotFound(s)
            ELSE Goto(s, [IdleFrame EXCEPT !.pc = "del_delete", !.db_id = db_id,
                             !.old_data = data[1], !.seen = data], "select", TRUE, FALSE)
    /\ UNCHANGED <<store, trail, applied>>

\* lines 502-517: after the delete call, go on to the audit entry, or leave
\* through the except branch
DelAfterDelete(s, f, ok) ==
    IF ok THEN Goto(s, [f EXCEPT !.pc = "del_log"], "delete", TRUE, TRUE)
    ELSE DeleteFailed(s, "delete")

\* line 502: the delete
DelDelete(s) ==
    /\ fr[s].pc = "del_delete"
    /\ \E up \in BOOLEAN :
        LET f == fr[s]
            rows == StoreDelete(store, f.db_id)
        IN  /\ store' = IF up THEN rows ELSE store
            /\ applied' = IF up /\ SelectEq(store, f.db_id) # <<>>
                          THEN BagAdd(applied, <<"DELETE", f.db_id>>) ELSE applied
            /\ DelAfterDelete(s, IF up THEN MarkWrite(f, store, rows, f.db_id, TRUE) ELSE f, up)
    /\ UNCHANGED <<trail, left>>

\* lines 505-513: the audit entry, then the success result
DelLog(s) ==
    /\ fr[s].pc = "del_log"
    /\ \E has_user \in IdentityAnswers, up \in BOOLEAN :
        LET f == fr[s]
            l == LogDatabaseChange(trail, s, f.db_id, "DELETE", f.old_data,
                                   EmptyMap, has_user, up, Ghost(f, s))
        IN  /\ trail' = l.trail
            /\ IF l.raised THEN DeleteFailed(s, "audit_insert")
               ELSE Return(s, Result(TRUE, "pump_data_deleted"), "audit_insert", l.ret, FALSE)
    /\ UNCHANGED <<store, applied, left>>

----------------------------------------------------------------------------
(* bulk_delete_pumps *)

\* lines 582-590: the result of bulk_delete_pumps
BulkResult(success_count, error_count) ==
    [ok |-> IF error_count = 0 THEN TRUE ELSE success_count > 0,
     msg |-> IF error_count = 0 THEN "deleted_all_successfully" ELSE "deleted_with_errors",
     success_count |-> success_count, error_count |-> error_count]

\* the loop goes on to the next identifier, or the function returns
BlkNext(s, f, call, ok, wrote) ==
    IF Tail(f.db_ids) = <<>>
    THEN Return(s, BulkResult(f.success_count, f.error_count), call, ok, wrote)
    ELSE Goto(s, [IdleFrame EXCEPT !.pc = "blk_read", !.db_ids = Tail(f.db_ids),
                     !.success_count = f.success_count, !.error_count = f.error_count],
              call, ok, wrote)

\* the except branch of the loop body, and the not-found branch
BlkError(s, f, call, ok) ==
    BlkNext(s, [f EXCEPT !.error_count = f.error_count + 1], call, ok, FALSE)

\* lines 546-554: read the current record of the next identifier
BlkReadOf(s, f) ==
    \E up \in BOOLEAN :
        LET db_id == Head(f.db_ids)
            data == SelectEq(store, db_id)
        IN  /\ IF ~up \/ data = <<>> THEN BlkError(s, f, "select", up)
               ELSE Goto(s, [f EXCEPT !.pc = "blk_delete", !.db_id = db_id,
                                !.old_data = data[1], !.seen = data], "select", TRUE, FALSE)
            /\ UNCHANGED <<store, trail, applied>>

BlkStart(s) ==
    /\ Begin(s)
    /\ \E db_ids \in BulkInputs : BlkReadOf(s, [IdleFrame EXCEPT !.db_ids = db_ids])

BlkRead(s) ==
    /\ fr[s].pc = "blk_read"
    /\ BlkReadOf(s, fr[s])
    /\ UNCHANGED left

\* lines 557-576: after the delete call, go on to the audit entry, or count
\* an error
BlkAfterDelete(s, f, ok) ==
    IF ok THEN Goto(s, [f EXCEPT !.pc = "blk_log"], "delete", TRUE, TRUE)
    ELSE BlkError(s, f, "delete", FALSE)

\* line 557: the delete
BlkDelete(s) ==
    /\ fr[s].pc = "blk_delete"
    /\ \E up \in BOOLEAN :
        LET f == fr[s]
            rows == StoreDelete(store, f.db_id)
        IN  /\ store' = IF up THEN rows ELSE store
            /\ applied' = IF up /\ SelectEq(store, f.db_id) # <<>>
                          THEN BagAdd(applied, <<"DELETE", f.db_id>>) ELSE applied
            /\ BlkAfterDelete(s, IF up THEN MarkWrite(f, store, rows, f.db_id, TRUE) ELSE f, up)
    /\ UNCHANGED <<trail, left>>

\* lines 560-568: the audit entry, then the count
BlkLog(s) ==
    /\ fr[s].pc = "blk_log"
    /\ \E has_user \in IdentityAnswers, up \in BOOLEAN :
        LET f == fr[s]
            l == LogDatabaseChange(trail, s, f.db_id, "DELETE", f.old_data,
                                   EmptyMap, has_user, up, Ghost(f, s))
        IN  /\ trail' = l.trail
            /\ IF l.raised THEN BlkError(s, f, "audit_insert", FALSE)
               ELSE BlkNext(s, [f EXCEPT !.success_count = f.success_count + 1],
                            "audit_insert", l.ret, FALSE)
    /\ UNCHANGED <<store, applied, left>>

----------------------------------------------------------------------------
(* import_csv_to_supabase *)

CsvIntegerFields == {"Frequency_Hz", "Phase", "Outlet (mm)", "Pass Solid Dia(mm)"}

\* lines 33-54: the importer's treatment of one cell; "raise" is an
\* exception the cell's try/except does not catch (the row is counted as an
\* error)
CsvField(column, value) ==
    IF IsNull(value) \/ value = NaN THEN [res |-> "set", val |-> Null]
    ELSE IF column \in CsvIntegerFields
    THEN IF value = S(<<>>) THEN [res |-> "set", val |-> Null]
         ELSE IF IsStr(value)
         THEN LET c == IntOfFloatStr(value[2])
              IN  CASE c.res = "ok" -> [res |-> "set", val |-> I(c.val)]
                    [] c.res = "ValueError" -> [res |-> "set", val |-> Null]
                    [] OTHER -> [res |-> "raise", val |-> Null]
         ELSE [res |-> "set", val |-> I(value[2])]
    ELSE IF value = S(<<>>) THEN [res |-> "set", val |-> Null]
    ELSE [res |-> "set", val |-> Str(value)]

\* the record the importer sends for one row
CsvRecord(row) == [c \in DOMAIN row |-> CsvField(c, row[c]).val]

CsvRaises(row) == \E c \in DOMAIN row : CsvField(c, row[c]).res = "raise"

\* lines 28-69: one row: build the record and insert it
CsvRowOf(s, f) ==
    \E up \in BOOLEAN :
        LET row == Head(f.rows)
            r == StoreInsert(store, CsvRecord(row))
            ok == ~CsvRaises(row) /\ up /\ r.ok
            g == [f EXCEPT !.pc = "csv_row", !.rows = Tail(f.rows),
                     !.success_count = IF ok THEN f.success_count + 1 ELSE f.success_count,
                     !.error_count = IF ok THEN f.error_count ELSE f.error_count + 1]
        IN  /\ store' = IF ok THEN r.rows ELSE store
            /\ applied' = IF ok THEN BagAdd(applied, <<"INSERT", r.rows[Len(r.rows)]["DB ID"][2]>>)
                          ELSE applied
            /\ IF g.rows = <<>>
               THEN Return(s, [ok |-> TRUE, msg |-> "import_completed",
                               success_count |-> g.success_count,
                               error_count |-> g.error_count], "csv_insert", ok, ok)
               ELSE Goto(s, g, "csv_insert", ok, ok)
            /\ UNCHANGED trail

CsvStart(s) ==
    /\ Begin(s)
    /\ \E rows \in CsvInputs : CsvRowOf(s, [IdleFrame EXCEPT !.rows = rows])

CsvRow(s) ==
    /\ fr[s].pc = "csv_row"
    /\ CsvRowOf(s, fr[s])
    /\ UNCHANGED left

----------------------------------------------------------------------------
(* The system *)

Init ==
    /\ store \in InitialStores
    /\ trail = <<>>
    /\ fr = [s \in Sessions |-> IdleFrame]
    /\ event = Event(0, "none", TRUE, NoResult)
    /\ applied = EmptyBag
    /\ left = MaxOps
    /\ probe = NoProbe
    /\ browser = PastGate

Step(s) ==
    \/ InsReadMax(s)
    \/ InsInsert(s)
    \/ InsLog(s)
    \/ UpdRead(s)
    \/ UpdTrial(s)
    \/ UpdUpdate(s)
    \/ UpdLog(s)
    \/ DelRead(s)
    \/ DelDelete(s)
    \/ DelLog(s)
    \/ BlkStart(s)
    \/ BlkRead(s)
    \/ BlkDelete(s)
    \/ BlkLog(s)
    \/ CsvStart(s)
    \/ CsvRow(s)

Next == \E s \in Sessions : Step(s)

Spec == Init /\ [][Next]_vars

\* one session alone
InitSolo ==
    /\ store \in InitialStores
    /\ trail = <<>>
    /\ fr = [s \in Sessions |-> IdleFrame]
    /\ event = Event(0, "none", TRUE, NoResult)
    /\ applied = EmptyBag
    /\ left = MaxOpsSolo
    /\ probe = NoProbe
    /\ browser = PastGate

SoloNext == Step(1)

SpecSolo == InitSolo /\ [][SoloNext]_vars

----------------------------------------------------------------------------
(* The Change Recorder on its own: log_database_change called with any      *)
(* arguments, in any session                                                *)

\* the session objects: None, dicts and other objects with and without the
\* email and username fields
Users ==
    {NoUser}
    \cup {User("dict", [k \in ks |-> IF k = "email" THEN "d@example.com"
                                     ELSE IF k = "username" THEN "dora" ELSE "id-7"],
                "{...}") :
            ks \in {{}, {"id"}, {"email", "id"}, {"username", "id"}, {"email", "username"}}}
    \cup {User("obj", [k \in ks |-> IF k = "email" THEN "o@example.com" ELSE "otto"],
                "<User>") :
            ks \in SUBSET {"email", "username"}}

TableNames == {"pump_selection_data", "users"}

Operations == {"INSERT", "UPDATE", "DELETE", "PATCH"}

\* record_id arguments: an int, a numpy integer, a numeral, a word
RecordIds == {I(1), NpInt(2), S(<<"7">>), S(<<"a", "b", "c">>)}

\* an entry written outside the handlers has no history
NoGhost == Ghost(IdleFrame, 0)

\* one call log_database_change(table_name, record_id, operation,
\* new_data=...)
CallLogDatabaseChange ==
    /\ left > 0
    /\ left' = left - 1
    /\ \E user \in Users, table_name \in TableNames, record_id \in RecordIds,
          operation \in Operations, up \in BOOLEAN :
        LET l == RecordChange(trail, user, table_name, RecordIdItem(record_id), operation,
                              EmptyMap, Row(1, A1, I(50)), up, NoGhost)
        IN  /\ trail' = l.trail
            /\ probe' = [fn |-> "log_database_change", user |-> user,
                         table_name |-> table_name, record_id |-> record_id,
                         operation |-> operation, ret |-> l.ret, raised |-> l.raised,
                         sent |-> l.sent, wrote |-> l.trail # trail]
    /\ UNCHANGED <<store, fr, event, applied, browser>>

InitRecorder ==
    /\ store = <<>>
    /\ trail = <<>>
    /\ fr = [s \in Sessions |-> IdleFrame]
    /\ event = Event(0, "none", TRUE, NoResult)
    /\ applied = EmptyBag
    /\ left = MaxCalls
    /\ probe = NoProbe
    /\ browser = PastGate

RecorderNext == CallLogDatabaseChange

SpecRecorder == InitRecorder /\ [][RecorderNext]_vars

----------------------------------------------------------------------------
(* The History Viewer: display_json_diff on the snapshots of an entry       *)

\* the keys of the snapshots compared, in sorted() order
DiffKeyOrder == <<"HP", "Model No.">>

\* sorted(set(list(old_dict.keys()) + list(new_dict.keys())))
AllKeys(old_dict, new_dict) ==
    SelectSeq(DiffKeyOrder, LAMBDA k : k \in (DOMAIN old_dict) \cup (DOMAIN new_dict))

\* json.loads(data): the value a JSON text encodes; TypeError on None
JsonLoads(data) ==
    IF IsNull(data) THEN [res |-> "TypeError", val |-> EmptyMap]
    ELSE [res |-> "ok", val |-> data[2]]

\* the snapshot parsed whether it is there or not
LoadsUnguarded(data) == JsonLoads(data)

\* json.loads(data) if data else {}
LoadsOrEmpty(data) ==
    IF IsNull(data) THEN [res |-> "ok", val |-> EmptyMap] ELSE JsonLoads(data)

NA == S(<<"N", "/", "A">>)

\* a key marked whenever the two sides differ, a missing side included
ChangedOrMissing(old_dict, new_dict, key) ==
    Get(old_dict, key, NA) # Get(new_dict, key, NA)

\* lines 139 and 149: the value is highlighted
Changed(old_dict, new_dict, key) ==
    key \in DOMAIN old_dict /\ key \in DOMAIN new_dict /\ old_dict[key] # new_dict[key]

\* one column of the comparison: for each key the value shown and whether
\* it is highlighted
DiffColumn(dict, old_dict, new_dict) ==
    LET all_keys == AllKeys(old_dict, new_dict)
    IN  [i \in 1..Len(all_keys) |->
            [key |-> all_keys[i], value |-> Get(dict, all_keys[i], NA),
             marked |-> Changed(old_dict, new_dict, all_keys[i])]]

\* display_json_diff(old_data, new_data): nothing but a note when both are
\* absent, else the column of old values and the column of new values;
\* raised: an exception leaves the function
DisplayJsonDiff(old_data, new_data) ==
    IF IsNull(old_data) /\ IsNull(new_data)
    THEN [shown |-> FALSE, raised |-> FALSE, old_col |-> <<>>, new_col |-> <<>>]
    ELSE LET old == LoadsOrEmpty(old_data)
             new == LoadsOrEmpty(new_data)
         IN  IF old.res # "ok" \/ new.res # "ok"
             THEN [shown |-> FALSE, raised |-> TRUE, old_col |-> <<>>, new_col |-> <<>>]
             ELSE [shown |-> TRUE, raised |-> FALSE,
                   old_col |-> DiffColumn(old.val, old.val, new.val),
                   new_col |-> DiffColumn(new.val, old.val, new.val)]

\* the values an entry may hold under a key
DiffValues(k) ==
    IF k = "HP" THEN {S(<<"5">>), S(<<"7">>), I(5), Null} ELSE {A1, B2}

\* the old_data and new_data of an entry: absent, or a JSON text of a snapshot
DiffSnapshots ==
    {Null} \cup
    UNION {{J(d) : d \in {f \in [ks -> UNION {DiffValues(k) : k \in ks}] :
                            \A k \in ks : f[k] \in DiffValues(k)}} :
            ks \in (SUBSET {"HP", "Model No."}) \ {{}}}

CallDisplayJsonDiff ==
    /\ \E old_data \in DiffSnapshots, new_data \in DiffSnapshots :
        probe' = [fn |-> "display_json_diff", old_data |-> old_data, new_data |-> new_data,
                  out |-> DisplayJsonDiff(old_data, new_data)]
    /\ UNCHANGED <<store, trail, fr, event, applied, left, browser>>

InitDiff ==
    /\ store = <<>>
    /\ trail = <<>>
    /\ fr = [s \in Sessions |-> IdleFrame]
    /\ event = Event(0, "none", TRUE, NoResult)
    /\ applied = EmptyBag
    /\ left = 0
    /\ probe = NoProbe
    /\ browser = PastGate

DiffNext == CallDisplayJsonDiff

SpecDiff == InitDiff /\ [][DiffNext]_vars

----------------------------------------------------------------------------
(* The Change Recorder and the Change Viewer: a snapshot written by         *)
(* log_database_change and parsed back by display_json_diff                 *)

\* the values a snapshot may hold under a key: native values, numpy values,
\* missing values, a list and a dict of them
SnapshotValues ==
    {I(5), A1, Null, Fl(FALSE, 12, <<"5">>), NpInt(5), NaN, NpNaN,
     L(<<NpInt(1), NaN, I(2)>>), D([k \in {"HP"} |-> NpInt(2)])}

\* the snapshots: the dicts with keys among HP and Model No.
Snapshots ==
    UNION {[ks -> SnapshotValues] : ks \in (SUBSET {"HP", "Model No."}) \ {{}}}

\* log_database_change("pump_selection_data", 1, "INSERT", new_data=snapshot)
CallLogSnapshot ==
    /\ left > 0
    /\ left' = left - 1
    /\ \E snapshot \in Snapshots, up \in BOOLEAN :
        LET l == RecordChange(trail, GetUserSession(1, TRUE), "pump_selection_data", I(1),
                              "INSERT", EmptyMap, snapshot, up, [snapshot |-> snapshot])
        IN  /\ trail' = l.trail
            /\ probe' = [fn |-> "log_database_change", ret |-> l.ret]
    /\ UNCHANGED <<store, fr, event, applied, browser>>

\* lines 126-127 of display_json_diff on an entry of the trail: its new_data
\* parsed
ViewEntry ==
    /\ \E i \in 1..Len(trail) :
        LET new == LoadsOrEmpty(trail[i].new_data)
        IN  probe' = [fn |-> "json_loads", snapshot |-> trail[i].g.snapshot,
                      res |-> new.res, new_dict |-> new.val]
    /\ UNCHANGED <<store, trail, fr, event, applied, left, browser>>

InitRoundTrip ==
    /\ store = <<>>
    /\ trail = <<>>
    /\ fr = [s \in Sessions |-> IdleFrame]
    /\ event = Event(0, "none", TRUE, NoResult)
    /\ applied = EmptyBag
    /\ left = 1
    /\ probe = NoProbe
    /\ browser = PastGate

RoundTripNext == CallLogSnapshot \/ ViewEntry

SpecRoundTrip == InitRoundTrip /\ [][RoundTripNext]_vars

----------------------------------------------------------------------------
(* The Field Normalizer at work: one call of insert_pump_data or            *)
(* update_pump_data, in one session, with any value in an integer field     *)

X9 == S(<<"X", "9">>)

FieldAlphabet == {"1", "2", "9", ".", "-"}

\* the texts of at most n characters
TextsUpTo(n) == UNION {[1..k -> FieldAlphabet] : k \in 0..n}

\* what an integer field may hold: a typed text, a text that is no number,
\* the texts float() reads as infinity and as not-a-number, an int, a float
FieldValues ==
    {S(cs) : cs \in TextsUpTo(MaxLen)}
    \cup {S(<<"5", "0", ".", "7">>), S(<<"a", "b", "c">>), S(<<"i", "n", "f">>),
          S(<<"n", "a", "n">>)}
    \cup {I(50), Fl(FALSE, 12, <<"9">>), Fl(TRUE, 12, <<"9">>)}

FieldInputs ==
    { [c \in {"Model No.", "Frequency (Hz)"} |-> IF c = "Model No." THEN X9 ELSE v] :
        v \in FieldValues }

\* insert_pump_data(pump_data) with the arguments of the call
InsReadMaxGiven(s) ==
    /\ probe.fn = "insert_pump_data"
    /\ \E up \in BOOLEAN : InsReadMaxOf(s, probe.pump_data, up)

\* update_pump_data(db_id, pump_data) with the arguments of the call
UpdReadGiven(s) ==
    /\ probe.fn = "update_pump_data"
    /\ \E up \in BOOLEAN : UpdReadOf(s, probe.db_id, probe.pump_data, up)

InitFields ==
    /\ store \in InitialStores
    /\ trail = <<>>
    /\ fr = [s \in Sessions |-> IdleFrame]
    /\ event = Event(0, "none", TRUE, NoResult)
    /\ applied = EmptyBag
    /\ left = 1
    /\ probe \in {[fn |-> fn, db_id |-> 1, pump_data |-> pump_data] :
                    fn \in {"insert_pump_data", "update_pump_data"},
                    pump_data \in FieldInputs}
    /\ browser = PastGate

FieldsNext ==
    \/ InsReadMaxGiven(1)
    \/ InsInsert(1)
    \/ InsLog(1)
    \/ UpdReadGiven(1)
    \/ UpdTrial(1)
    \/ UpdUpdate(1)
    \/ UpdLog(1)

SpecFields == InitFields /\ [][FieldsNext]_vars

----------------------------------------------------------------------------
(* The two normalizers side by side: the record import_csv_to_supabase      *)
(* builds for a row and the clean_data insert_pump_data builds for the      *)
(* same field map                                                           *)

\* what a cell of a CSV row may hold: a text, a numpy integer, a missing value
CellValues ==
    {S(cs) : cs \in TextsUpTo(MaxLen)}
    \cup {S(<<"5", "0", ".", "7">>), S(<<"a", "b", "c">>), S(<<"i", "n", "f">>),
          S(<<"n", "a", "n">>)}
    \cup {NpInt(50), NaN}

\* the raw field maps
RawRows ==
    { [c \in {"Model No.", "Frequency (Hz)"} |-> IF c = "Model No." THEN m ELSE v] :
        m \in {X9, NaN}, v \in CellValues }

NotBuilt == [res |-> "none", record |-> EmptyMap]

\* lines 31-54 of import_csv_to_supabase on the row: the record, or the
\* exception that counts the row as an error
CsvBuildRecord ==
    /\ probe.fn = "normalize"
    /\ probe.csv = NotBuilt
    /\ probe' = [probe EXCEPT !.csv =
                    IF CsvRaises(probe.row) THEN [res |-> "raise", record |-> EmptyMap]
                    ELSE [res |-> "ok", record |-> CsvRecord(probe.row)]]
    /\ UNCHANGED <<store, trail, fr, event, applied, left, browser>>

\* lines 319-371 of insert_pump_data on the same map, on an empty table: the
\* clean_data, or the exception that leaves through the outer except
InsBuildRecord ==
    /\ probe.fn = "normalize"
    /\ probe.ins = NotBuilt
    /\ probe' = [probe EXCEPT !.ins =
                    IF InsertRaises(probe.row) THEN [res |-> "raise", record |-> EmptyMap]
                    ELSE [res |-> "ok",
                          record |-> InsertClean(probe.row, NextId(MaxIdAnswer(store)))]]
    /\ UNCHANGED <<store, trail, fr, event, applied, left, browser>>

InitNormalizers ==
    /\ store = <<>>
    /\ trail = <<>>
    /\ fr = [s \in Sessions |-> IdleFrame]
    /\ event = Event(0, "none", TRUE, NoResult)
    /\ applied = EmptyBag
    /\ left = 0
    /\ probe \in {[fn |-> "normalize", row |-> row, csv |-> NotBuilt, ins |-> NotBuilt] :
                    row \in RawRows}
    /\ browser = PastGate

NormalizersNext == CsvBuildRecord \/ InsBuildRecord

SpecNormalizers == InitNormalizers /\ [][NormalizersNext]_vars

----------------------------------------------------------------------------
(* The add-pump form: the submit handler in one session, the form filled    *)
(* in once and submitted again and again                                    *)

\* what the add-pump form may hold on submit: the text of Model No., empty
\* or not, and the number of Frequency (Hz)
FormInputs ==
    { [c \in {"Model No.", "Frequency (Hz)"} |-> IF c = "Model No." THEN m ELSE f] :
        m \in {S(<<>>), A1, X9}, f \in {I(0), I(50), I(60)} }

\* no submission is held back
ModelNoNeverMissing(new_pump_data) == FALSE

\* line 806: not new_pump_data.get("Model No.")
ModelNoMissing(new_pump_data) ==
    Get(new_pump_data, "Model No.", Null) \in {Null, S(<<>>)}

\* lines 804-816: the submit button of the add-pump form: the validation
\* error, or insert_pump_data up to its first call on the store
AddSubmit(s) ==
    /\ probe.fn = "add_pump_form"
    /\ IF ModelNoMissing(probe.new_pump_data)
       THEN /\ Begin(s)
            /\ Return(s, Result(FALSE, "model_no_required"), "none", TRUE, FALSE)
            /\ UNCHANGED <<store, trail, applied>>
       ELSE \E up \in BOOLEAN : InsReadMaxOf(s, probe.new_pump_data, up)

InitAddForm ==
    /\ store \in InitialStores
    /\ trail = <<>>
    /\ fr = [s \in Sessions |-> IdleFrame]
    /\ event = Event(0, "none", TRUE, NoResult)
    /\ applied = EmptyBag
    /\ left = MaxOpsSolo
    /\ probe \in {[fn |-> "add_pump_form", new_pump_data |-> d] : d \in FormInputs}
    /\ browser = PastGate

AddFormNext == AddSubmit(1) \/ InsInsert(1) \/ InsLog(1)

SpecAddForm == InitAddForm /\ [][AddFormNext]_vars

----------------------------------------------------------------------------
(* The login gate: the page runs of the editor (DB_Editor.py) and of the    *)
(* history viewer (History_Viewer.py) in each session, with login and       *)
(* logout.  A cookie is absent ("none"), a mapping that holds the token     *)
(* ("token"), or a bare text ("text").                                      *)

\* get_user_session(): None without a cookie; the user of the identity
\* service when it accepts the token, None when it rejects it or fails;
\* token.get raises on a cookie that is a bare text
SessionAtStart(s, cookie, accepts) ==
    CASE cookie = "none" -> [raised |-> FALSE, user |-> NoUser]
      [] cookie = "text" -> [raised |-> TRUE, user |-> NoUser]
      [] OTHER -> [raised |-> FALSE, user |-> GetUserSession(s, accepts)]

\* the gate let everybody in
GateNeverStops(user) == FALSE

\* `if not user:` at the top of both pages
GateStops(user) == ~Truthy(user)

\* a page run starts: the script runs down to the gate and stops there, or
\* passes it
RunPage(s, page, stopped) ==
    /\ fr[s].pc = "idle"
    /\ browser[s].run = "none"
    /\ \E accepts \in BOOLEAN :
        LET r == SessionAtStart(s, browser[s].cookie, accepts)
        IN  browser' = [browser EXCEPT ![s].user = r.user,
                            ![s].run = IF r.raised THEN "error"
                                       ELSE IF GateStops(r.user) THEN stopped ELSE page]
    /\ UNCHANGED <<store, trail, fr, event, applied, left, probe>>

\* DB_Editor.py lines 33-37: login_form() and st.stop()
RunEditor(s) == RunPage(s, "editor", "login_form")

\* History_Viewer.py lines 21-25: st.warning and st.stop()
RunHistory(s) == RunPage(s, "history", "warning")

\* login.py lines 21-40: the login form submitted; on success the cookie is
\* set and the page runs again
Login(s) ==
    /\ browser[s].run = "login_form"
    /\ \E ok \in BOOLEAN, kind \in {"token", "text"} :
        browser' = [browser EXCEPT ![s].cookie = IF ok THEN kind ELSE @,
                                   ![s].run = IF ok THEN "none" ELSE @]
    /\ UNCHANGED <<store, trail, fr, event, applied, left, probe>>

\* DB_Editor.py lines 40-42 and login.py lines 54-57: the logout button
Logout(s) ==
    /\ browser[s].run = "editor"
    /\ fr[s].pc = "idle"
    /\ browser' = [browser EXCEPT ![s] = [cookie |-> "none", user |-> NoUser, run |-> "none"]]
    /\ UNCHANGED <<store, trail, fr, event, applied, left, probe>>

\* the script of the run has come to its end or has stopped
EndRun(s) ==
    /\ browser[s].run # "none"
    /\ fr[s].pc = "idle"
    /\ browser' = [browser EXCEPT ![s].user = NoUser, ![s].run = "none"]
    /\ UNCHANGED <<store, trail, fr, event, applied, left, probe>>

\* the part of the editor page below the gate: the delete handler at work
EditorAct(s) ==
    /\ browser[s].run = "editor"
    /\ \/ DelRead(s)
       \/ DelDelete(s)
       \/ DelLog(s)

\* History_Viewer.py lines 48-81, fetch_audit_data below the gate: the read of
\* the audit history
FetchAuditData(s) ==
    /\ browser[s].run = "history"
    /\ probe' = [fn |-> "fetch_audit_data", s |-> s, rows |-> trail]
    /\ UNCHANGED <<store, trail, fr, event, applied, left, browser>>

InitGate ==
    /\ store \in InitialStores
    /\ trail = <<>>
    /\ fr = [s \in Sessions |-> IdleFrame]
    /\ event = Event(0, "none", TRUE, NoResult)
    /\ applied = EmptyBag
    /\ left = MaxOps
    /\ probe = [fn |-> "none", s |-> 0, rows |-> <<>>]
    /\ browser \in [Sessions -> {[cookie |-> c, user |-> NoUser, run |-> "none"] :
                                  c \in {"none", "token"}}]

GateStep(s) ==
    \/ RunEditor(s)
    \/ RunHistory(s)
    \/ Login(s)
    \/ Logout(s)
    \/ EndRun(s)
    \/ EditorAct(s)
    \/ FetchAuditData(s)

GateNext == \E s \in Sessions : GateStep(s)

SpecGate == InitGate /\ [][GateNext]_vars

----------------------------------------------------------------------------
(* The live activity feed: fetch_recent_changes in one session while other  *)
(* sessions write audit entries.  Every step happens at an instant of its   *)
(* own; an entry is stamped with the instant of its write.                  *)

\* .limit(10) of the query
FetchLimit == 10

\* last_changes[:20]
KeepLimit == 20

\* the first n items of a sequence: seq[:n]
FirstN(seq, n) == SubSeq(seq, 1, IF Len(seq) < n THEN Len(seq) ELSE n)

RECURSIVE NewestFirst(_)
\* .order("modified_at", desc=True) on a set of entries
NewestFirst(entries) ==
    IF entries = {} THEN <<>>
    ELSE LET e == CHOOSE x \in entries : \A y \in entries : y.g.modified_at <= x.g.modified_at
         IN  <<e>> \o NewestFirst(entries \ {e})

\* lines 163-168: the entries changed since last_check, newest first, ten at
\* most
RecentChanges(rows, last_check) ==
    FirstN(NewestFirst({rows[i] : i \in {j \in 1..Len(rows) : rows[j].g.modified_at >= last_check}}),
           FetchLimit)

\* lines 173-178: the new changes put before the old ones, twenty kept
MergeChanges(new_changes, last_changes) ==
    IF new_changes # <<>> THEN FirstN(new_changes \o last_changes, KeepLimit)
    ELSE last_changes

\* another session's log_database_change: an entry stamped with the instant
\* of the call
FeedAuditWrite ==
    /\ probe.now < MaxTime
    /\ \E up \in BOOLEAN :
        LET l == RecordChange(trail, GetUserSession(2, TRUE), "pump_selection_data", I(1),
                              "UPDATE", Row(1, A1, I(50)), Row(1, B2, I(50)), up,
                              [modified_at |-> probe.now + 1, id |-> Len(trail) + 1])
        IN  trail' = l.trail
    /\ probe' = [probe EXCEPT !.now = probe.now + 1]
    /\ UNCHANGED <<store, fr, event, applied, left, browser>>

\* lines 163-168: fetch_recent_changes sends its query; at_query: the number
\* of entries the trail holds then
FetchQuery ==
    /\ probe.now < MaxTime
    /\ probe.pc = "idle"
    /\ \E up \in BOOLEAN :
        probe' = [probe EXCEPT !.now = probe.now + 1,
                               !.pc = IF up THEN "got_response" ELSE "idle",
                               !.response = IF up THEN RecentChanges(trail, probe.last_check)
                                            ELSE <<>>,
                               !.at_query = IF up THEN Len(trail) ELSE @]
    /\ UNCHANGED <<store, trail, fr, event, applied, left, browser>>

\* lines 171-181: last_check becomes now, the response is merged into
\* last_changes
FetchUpdate ==
    /\ probe.now < MaxTime
    /\ probe.pc = "got_response"
    /\ probe' = [probe EXCEPT !.now = probe.now + 1,
                              !.pc = "idle",
                              !.last_check = probe.now + 1,
                              !.last_changes = MergeChanges(probe.response, probe.last_changes),
                              !.response = <<>>,
                              !.fetched = TRUE]
    /\ UNCHANGED <<store, trail, fr, event, applied, left, browser>>

\* lines 154-157: the feed initialised at instant 0
InitFeed ==
    /\ store = <<Row(1, A1, I(50))>>
    /\ trail = <<>>
    /\ fr = [s \in Sessions |-> IdleFrame]
    /\ event = Event(0, "none", TRUE, NoResult)
    /\ applied = EmptyBag
    /\ left = 0
    /\ probe = [fn |-> "fetch_recent_changes", now |-> 0, pc |-> "idle", last_check |-> 0,
                last_changes |-> <<>>, response |-> <<>>, at_query |-> 0, fetched |-> FALSE]
    /\ browser = PastGate

FeedNext == FeedAuditWrite \/ FetchQuery \/ FetchUpdate

SpecFeed == InitFeed /\ [][FeedNext]_vars

----------------------------------------------------------------------------
(* Properties *)

AllIdle == \A s \in Sessions : fr[s].pc = "idle"

Entries == {trail[i] : i \in 1..Len(trail)}

EntriesOf(op) == {i \in 1..Len(trail) : trail[i].operation = op}

\* the number of audit entries of operation op on record rid
EntryCount(op, rid) ==
    Cardinality({i \in 1..Len(trail) : trail[i].operation = op /\ trail[i].record_id = rid})

\* C1: once every handler has returned, the audit trail holds exactly one
\* entry for each mutation the store applied: for every operation kind and
\* record identifier, as many entries as applied mutations.
C1_OneEntryPerAppliedMutation ==
    AllIdle =>
        \A e \in (DOMAIN applied) \cup {<<t.operation, t.record_id>> : t \in Entries} :
            EntryCount(e[1], e[2]) = BagCount(applied, e)

\* C2: when the write of the audit row fails in insert_pump_data,
\* update_pump_data or delete_pump_data, log_database_change returns False
\* without raising: the handler's mutation has been applied and stays in the
\* store, nothing is written to the trail, and the handler returns success.
C2_AuditFailureNeverBlocks ==
    [][\A s \in Sessions :
        (/\ fr[s].pc \in {"ins_log", "upd_log", "del_log"}
         /\ event'.s = s
         /\ event'.call = "audit_insert"
         /\ ~event'.ok)
        => (/\ fr[s].mutated
            /\ store' = store
            /\ trail' = trail
            /\ fr'[s].pc = "idle"
            /\ event'.ret.ok)]_vars

\* C2 happens: an audit write failed and the handler returned success
C2_Witness ==
    /\ event.call = "audit_insert"
    /\ ~event.ok
    /\ event.ret.ok
    /\ event.ret.msg \in {"pump_data_added", "pump_data_updated", "pump_data_deleted"}
    /\ trail = <<>>
    /\ applied # EmptyBag

\* C3: an audit entry is written only by a handler whose insert, update or
\* delete call on the store has succeeded; when that call fails in
\* insert_pump_data, update_pump_data or delete_pump_data the handler
\* returns a failure result, the store is unchanged and no entry is written.
C3_EntryOnlyAfterMutation ==
    [][\A s \in Sessions :
        /\ (event'.s = s /\ Len(trail') > Len(trail)) => fr[s].mutated
        /\ (/\ fr[s].pc \in {"ins_insert", "upd_update", "del_delete"}
            /\ event'.s = s
            /\ ~event'.ok)
           => (/\ trail' = trail
               /\ store' = store
               /\ fr'[s].pc = "idle"
               /\ event'.ret # NoResult
               /\ ~event'.ret.ok)]_vars

\* C3 happens: an insert call failed and insert_pump_data returned failure
C3_Witness ==
    /\ event.call = "insert"
    /\ ~event.ok
    /\ event.ret = Result(FALSE, "error_adding_pump")
    /\ trail # <<>>

\* C4: in a run of one session, every identifier insert_pump_data chooses
\* is greater than every identifier it chose before (the identifiers of the
\* INSERT entries written so far).
C4_IdentifiersIncrease ==
    \A s \in Sessions :
        fr[s].pc = "ins_insert" =>
            \A i \in EntriesOf("INSERT") : fr[s].new_id > trail[i].record_id

\* C5: two sessions that have both read the maximum and not yet inserted
\* hold the same new identifier.
C5_SameIdentifierTwice ==
    \A s, t \in Sessions :
        (s # t /\ fr[s].pc = "ins_insert" /\ fr[t].pc = "ins_insert"
            /\ fr[s].quiet /\ fr[t].quiet)
        => fr[s].new_id = fr[t].new_id

\* C5 happens: two pending inserts carry the same DB ID
C5_Witness ==
    /\ fr[1].pc = "ins_insert"
    /\ fr[2].pc = "ins_insert"
    /\ fr[1].clean_data["DB ID"] = fr[2].clean_data["DB ID"]

\* the identifiers in the table
IdNumbers(rows) == {rows[i]["DB ID"][2] : i \in 1..Len(rows)}

\* C6: the identifier insert_pump_data chooses is 1 on an empty table and
\* otherwise the greatest identifier of the table plus one; the row it
\* inserts and the INSERT entry it writes carry that identifier.
C6_NextIdentifier ==
    [][\A s \in Sessions :
        /\ (fr[s].pc = "idle" /\ fr'[s].pc = "ins_insert")
           => LET n == fr'[s].new_id
              IN  IF IdNumbers(store) = {} THEN n = 1
                  ELSE (n - 1) \in IdNumbers(store) /\ \A i \in IdNumbers(store) : i < n
        /\ (fr[s].pc = "ins_insert" /\ event'.s = s /\ event'.ok)
           => (/\ Len(store') = Len(store) + 1
               /\ SubSeq(store', 1, Len(store)) = store
               /\ store'[Len(store')]["DB ID"] = I(fr[s].new_id))
        /\ (fr[s].pc = "ins_log" /\ event'.s = s /\ event'.ok)
           => (/\ Len(trail') = Len(trail) + 1
               /\ trail'[Len(trail')].operation = "INSERT"
               /\ trail'[Len(trail')].record_id = fr[s].new_id
               /\ trail'[Len(trail')].new_data[2]["DB ID"] = I(fr[s].new_id))]_vars

\* C6 happens: an insert on the empty table and one on a table with rows
\* were made and logged
C6_Witness ==
    /\ \E i \in EntriesOf("INSERT") : trail[i].record_id = 1
    /\ \E i \in EntriesOf("INSERT") : trail[i].record_id = 2
    /\ {1, 2} \subseteq IdNumbers(store)

\* C7: no step updates or deletes a row of the audit trail: the entries
\* written stay, unchanged and in place, also those of deleted records.
C7_TrailAppendOnly ==
    [][/\ Len(trail') >= Len(trail)
       /\ \A i \in 1..Len(trail) : trail'[i] = trail[i]]_vars

\* C7 happens: the entries of a record outlive it
C7_Witness ==
    \E i \in EntriesOf("INSERT"), j \in EntriesOf("DELETE") :
        /\ trail[i].record_id = trail[j].record_id
        /\ i < j
        /\ trail[i].record_id \notin IdNumbers(store)

\* C8: no call on the store made by update_pump_data changes the DB ID of a
\* stored record, whatever pump_data holds; the record insert_pump_data
\* sends carries its new identifier, an integer, as DB ID, and the record
\* stored for it has that identifier, not null.
C8_IdentifierNotEditable ==
    [][\A s \in Sessions :
        /\ (fr[s].pc \in {"upd_trial", "upd_update"} /\ event'.s = s)
           => (/\ Len(store') = Len(store)
               /\ \A i \in 1..Len(store) : store'[i]["DB ID"] = store[i]["DB ID"])
        /\ fr'[s].pc \in {"ins_insert", "ins_log"}
           => (/\ fr'[s].new_id >= 1
               /\ fr'[s].clean_data["DB ID"] = I(fr'[s].new_id))
        /\ (fr[s].pc = "ins_insert" /\ event'.s = s /\ event'.ok)
           => (/\ ~IsNull(store'[Len(store')]["DB ID"])
               /\ IsInt(store'[Len(store')]["DB ID"]))]_vars

\* C8 happens: update_pump_data was given a pump_data with a "DB ID" key
\* (the input whose only other field cleans to None) and its update was
\* applied
C8_Witness ==
    \E s \in Sessions :
        /\ fr[s].pc = "upd_log"
        /\ fr[s].clean_data = [k \in {"Frequency (Hz)"} |-> Null]
        /\ event = Event(s, "update", TRUE, NoResult)
        /\ fr[s].post # <<>>

\* C9 as claimed: the old snapshot of every UPDATE entry is the record as it
\* was immediately before the handler's first write, under any interleaving.
C9_OldSnapshotIsStateBefore ==
    \A i \in EntriesOf("UPDATE") :
        /\ trail[i].g.pre # <<>>
        /\ trail[i].old_data = J(trail[i].g.pre[1])

\* C9 as amended: the old snapshot of every UPDATE entry is the full field
\* map of the record as update_pump_data read it at its start; it is the
\* record as it was immediately before the handler's first write whenever
\* no other session wrote to the table between that read and that write.
C9_OldSnapshotIsStateRead ==
    \A i \in EntriesOf("UPDATE") :
        /\ trail[i].g.seen # <<>>
        /\ trail[i].old_data = J(trail[i].g.seen[1])
        /\ DOMAIN trail[i].old_data[2] = Columns
        /\ trail[i].g.quiet => trail[i].g.pre = trail[i].g.seen

\* C9 happens: an UPDATE entry written without interference, and one whose
\* record another session changed between the read and the write
C9_Witness ==
    /\ \E i \in EntriesOf("UPDATE") : trail[i].g.quiet
    /\ \E i \in EntriesOf("UPDATE") :
            ~trail[i].g.quiet /\ trail[i].g.pre # trail[i].g.seen

\* C10: the new snapshot of every INSERT and UPDATE entry is the full field
\* map of the record as stored after the mutation.
C10_NewSnapshotIsStoredRecord ==
    \A i \in EntriesOf("INSERT") \cup EntriesOf("UPDATE") :
        /\ trail[i].g.post # <<>>
        /\ trail[i].new_data = J(trail[i].g.post[1])

\* C11: in every audit entry the handlers write, operation is INSERT, UPDATE
\* or DELETE; an INSERT entry has no old snapshot, a DELETE entry has no new
\* snapshot and its old snapshot is the record as the handler read it before
\* deleting.
C11_OperationAndAbsentSnapshots ==
    \A i \in 1..Len(trail) :
        /\ trail[i].operation \in {"INSERT", "UPDATE", "DELETE"}
        /\ trail[i].operation = "INSERT" => trail[i].old_data = Null
        /\ trail[i].operation = "DELETE" =>
            /\ trail[i].new_data = Null
            /\ trail[i].g.seen # <<>>
            /\ trail[i].old_data = J(trail[i].g.seen[1])

\* C11 happens: an INSERT entry and the DELETE entry of a record read
\* before its deletion have been written
C11_Witness ==
    /\ EntriesOf("INSERT") # {}
    /\ EntriesOf("DELETE") # {}
    /\ \E i \in EntriesOf("DELETE") : trail[i].old_data[2]["Model No."] = A1

\* C15: when the read of the maximum identifier fails, insert_pump_data
\* returns the failure result of the allocation; it sends no insert, writes
\* no audit entry, and the table is as it was.
C15_AllocationFailureAborts ==
    [][\A s \in Sessions :
        (/\ fr[s].pc = "idle"
         /\ event'.s = s
         /\ event'.call = "select_max"
         /\ ~event'.ok)
        => (/\ event'.ret = Result(FALSE, "could_not_generate_db_id")
            /\ fr'[s].pc = "idle"
            /\ store' = store
            /\ trail' = trail
            /\ applied' = applied)]_vars

\* C15 happens: the read failed on a table with records
C15_Witness ==
    /\ event.call = "select_max"
    /\ ~event.ok
    /\ event.ret.msg = "could_not_generate_db_id"
    /\ store # <<>>

\* C12: a call of log_database_change with an operation other than INSERT,
\* UPDATE and DELETE returns False and writes no row.
C12_UnknownOperationRejected ==
    (probe.fn = "log_database_change" /\ probe.operation \notin {"INSERT", "UPDATE", "DELETE"})
    => (~probe.ret /\ ~probe.wrote)

\* the allow-list of the Change Recorder
AllowedTables == {"pump_selection_data"}

\* C13: a call of log_database_change with a table name outside the
\* allow-list returns False and writes no row.
C13_UnlistedTableRejected ==
    (probe.fn = "log_database_change" /\ probe.table_name \notin AllowedTables)
    => (~probe.ret /\ ~probe.wrote)

\* the integer a record_id argument resolves to, if any
ResolvesToInteger(v) == IsInt(v) \/ IsNpInt(v) \/ (IsStr(v) /\ IsIntegerText(v[2]))

\* C14: log_database_change sends the store a record_id that is an integer,
\* and returns False without writing when the argument does not resolve to
\* one; every entry of the trail has an integer record_id.
C14_RecordIdIntegerOrRejected ==
    /\ probe.fn = "log_database_change" =>
        IF ResolvesToInteger(probe.record_id)
        THEN \A i \in 1..Len(probe.sent) : IsInt(probe.sent[i].record_id)
        ELSE ~probe.ret /\ ~probe.wrote
    /\ probe.fn = "log_database_change" =>
        \A i \in 1..Len(trail) : IsInt(trail[i].record_id)

\* the actor by the order of the claim: the dictionary fields, then the
\* attributes, then the string form
ActorByOrder(user) ==
    IF user.kind = "none" THEN "anonymous"
    ELSE IF user.kind = "dict" /\ "email" \in DOMAIN user.fields THEN user.fields["email"]
    ELSE IF user.kind = "dict" /\ "username" \in DOMAIN user.fields THEN user.fields["username"]
    ELSE IF user.kind = "obj" /\ "email" \in DOMAIN user.fields THEN user.fields["email"]
    ELSE IF user.kind = "obj" /\ "username" \in DOMAIN user.fields THEN user.fields["username"]
    ELSE user.str

\* C19 as claimed: the actor of the audit record is the first of: the dict's
\* email, the dict's username, the attribute email, the attribute username,
\* the string form of the session; "anonymous" without a session.
C19_ActorByOrder ==
    probe.fn = "log_database_change" =>
        \A i \in 1..Len(probe.sent) : probe.sent[i].modified_by = ActorByOrder(probe.user)

\* C19 as amended: as claimed for an object and for a dict with an email or a
\* username; a dict with other keys only gives "unknown", not its string
\* form, and an empty dict counts as no session and gives "anonymous".
C19_ActorResolution ==
    probe.fn = "log_database_change" =>
        /\ Len(probe.sent) = 1
        /\ LET user == probe.user
               keys == DOMAIN user.fields
               actor == probe.sent[1].modified_by
           IN  /\ user.kind = "none" => actor = "anonymous"
               /\ (user.kind = "dict" /\ keys = {}) => actor = "anonymous"
               /\ (user.kind = "dict" /\ "email" \in keys) => actor = user.fields["email"]
               /\ (user.kind = "dict" /\ "email" \notin keys /\ "username" \in keys)
                    => actor = user.fields["username"]
               /\ (user.kind = "dict" /\ keys # {} /\ keys \cap {"email", "username"} = {})
                    => actor = "unknown"
               /\ (user.kind = "obj" /\ "email" \in keys) => actor = user.fields["email"]
               /\ (user.kind = "obj" /\ "email" \notin keys /\ "username" \in keys)
                    => actor = user.fields["username"]
               /\ (user.kind = "obj" /\ keys = {}) => actor = user.str
        /\ probe.wrote => trail[Len(trail)].modified_by = probe.sent[1].modified_by

\* C19 happens: an entry was written for a dict session without email and
\* username
C19_Witness ==
    /\ probe.fn = "log_database_change"
    /\ probe.user.kind = "dict"
    /\ DOMAIN probe.user.fields = {"id"}
    /\ probe.wrote
    /\ trail[Len(trail)].modified_by = "unknown"

\* the value of the integer field in the arguments of the call
Raw == probe.pump_data["Frequency (Hz)"]

\* a text without its sign
Unsigned(cs) == IF cs # <<>> /\ cs[1] = "-" THEN Tail(cs) ELSE cs

\* a numeral: an optional sign, digits with at most one ".", a digit at least
IsNumeral(cs) == LooksNumeric(Unsigned(cs))

\* the integer part of a numeral, with its sign
Truncated(cs) ==
    LET body == Unsigned(cs)
        ip == IF FirstDot(body) = 0 THEN body ELSE SubSeq(body, 1, FirstDot(body) - 1)
    IN  IF cs[1] = "-" THEN -NatOf(ip) ELSE NatOf(ip)

\* a text that is there and is no numeral
CannotParse(v) == IsStr(v) /\ v[2] # <<>> /\ ~IsNumeral(v[2])

\* the handler of session 1 has read and cleaned, and goes on to its writes
Cleaned == fr[1].pc = "idle" /\ fr'[1].pc \in {"ins_insert", "upd_trial"}

\* C16: when the integer field holds a text that cannot be parsed as a
\* number, and the handler's read succeeds (and update_pump_data finds its
\* record), the handler goes on to its mutation with the other fields cleaned
\* as usual and the failing field dropped or None.
C16_ParseFailureIsolated ==
    [][(/\ fr[1].pc = "idle"
        /\ event'.s = 1
        /\ event'.call \in {"select_max", "select"}
        /\ event'.ok
        /\ CannotParse(Raw)
        /\ probe.fn = "update_pump_data" => SelectEq(store, probe.db_id) # <<>>)
       => (/\ fr'[1].pc \in {"ins_insert", "upd_trial"}
           /\ fr'[1].clean_data["Model No."] = X9
           /\ \/ "Frequency (Hz)" \notin DOMAIN fr'[1].clean_data
              \/ fr'[1].clean_data["Frequency (Hz)"] = Null)]_vars

\* C17 as claimed: in insert_pump_data and in update_pump_data alike, the
\* integer field of clean_data is None for the empty text, the integer part
\* for every numeral (signed or not) and for a float, and the int itself for
\* an int.
C17_TruncationInBothNormalizers ==
    [][Cleaned =>
        LET clean == fr'[1].clean_data
        IN  /\ Raw = S(<<>>) => Get(clean, "Frequency (Hz)", NaN) = Null
            /\ (IsStr(Raw) /\ IsNumeral(Raw[2]))
                => Get(clean, "Frequency (Hz)", NaN) = I(Truncated(Raw[2]))
            /\ IsFloat(Raw) => Get(clean, "Frequency (Hz)", NaN) = I(IntOfFloat(Raw))
            /\ IsInt(Raw) => Get(clean, "Frequency (Hz)", NaN) = Raw]_vars

\* C17 as amended: the empty text gives None, a float its integer part, an
\* int itself, and a numeral its integer part (truncation towards zero, not
\* rounding) in insert_pump_data; in update_pump_data only a numeral without
\* sign is converted so, and a numeral with a sign gives None.
C17_TruncationOfNumerals ==
    [][Cleaned =>
        LET clean == fr'[1].clean_data
            signed == Raw[2][1] = "-"
        IN  /\ Raw = S(<<>>) => Get(clean, "Frequency (Hz)", NaN) = Null
            /\ (IsStr(Raw) /\ IsNumeral(Raw[2]) /\ (probe.fn = "insert_pump_data" \/ ~signed))
                => Get(clean, "Frequency (Hz)", NaN) = I(Truncated(Raw[2]))
            /\ (IsStr(Raw) /\ IsNumeral(Raw[2]) /\ probe.fn = "update_pump_data" /\ signed)
                => Get(clean, "Frequency (Hz)", NaN) = Null
            /\ IsFloat(Raw) => Get(clean, "Frequency (Hz)", NaN) = I(IntOfFloat(Raw))
            /\ IsInt(Raw) => Get(clean, "Frequency (Hz)", NaN) = Raw]_vars

\* C17 happens: update_pump_data has cleaned "12.9" to 12
C17_Witness ==
    /\ probe.fn = "update_pump_data"
    /\ Raw = S(<<"1", "2", ".", "9">>)
    /\ fr[1].pc = "upd_trial"
    /\ fr[1].clean_data["Frequency (Hz)"] = I(12)

\* the arguments of the end-to-end scenario
IsScenario ==
    /\ probe.fn = "insert_pump_data"
    /\ probe.pump_data =
        [c \in {"Model No.", "Frequency (Hz)"} |->
            IF c = "Model No." THEN X9 ELSE S(<<"5", "0", ".", "7">>)]

\* C18: insert_pump_data({"Model No.": "X9", "Frequency (Hz)": "50.7"}) on the
\* empty table, every call on the store succeeding: the identifier is 1, the
\* record stored has DB ID 1 and Frequency (Hz) 50, and the audit trail gets
\* one entry: INSERT, record_id 1, Frequency (Hz) 50 in the new snapshot, no
\* old snapshot.
C18_EndToEndInsert ==
    [][(IsScenario /\ event'.s = 1 /\ event'.ok) =>
        /\ (fr[1].pc = "idle" /\ store = <<>>)
            => (/\ fr'[1].pc = "ins_insert"
                /\ fr'[1].new_id = 1
                /\ fr'[1].clean_data = Row(1, X9, I(50)))
        /\ (fr[1].pc = "ins_insert" /\ store = <<>>)
            => (/\ store' = <<Row(1, X9, I(50))>>
                /\ fr'[1].pc = "ins_log")
        /\ (fr[1].pc = "ins_log" /\ store = <<Row(1, X9, I(50))>>)
            => (/\ Len(trail') = 1
                /\ trail'[1].operation = "INSERT"
                /\ trail'[1].record_id = 1
                /\ trail'[1].new_data[2]["Frequency (Hz)"] = I(50)
                /\ trail'[1].old_data = Null
                /\ event'.ret = Result(TRUE, "pump_data_added"))]_vars

\* C18 happens: the scenario has run to its end
C18_Witness ==
    /\ IsScenario
    /\ store = <<Row(1, X9, I(50))>>
    /\ Len(trail) = 1
    /\ trail[1].record_id = 1
    /\ event.ret = Result(TRUE, "pump_data_added")

\* the keys a column of the comparison shows
KeysShown(col) == {col[i].key : i \in 1..Len(col)}

\* C20: when a snapshot is there, each column of display_json_diff has one
\* line for every key of either snapshot, and a line is highlighted exactly
\* when its key is in both snapshots with different values: not when the
\* values are equal, not when the key is in one snapshot only.
C20_DiffMarksChangedKeys ==
    (probe.fn = "display_json_diff" /\ ~(IsNull(probe.old_data) /\ IsNull(probe.new_data)))
    => LET old_dict == IF IsNull(probe.old_data) THEN EmptyMap ELSE probe.old_data[2]
           new_dict == IF IsNull(probe.new_data) THEN EmptyMap ELSE probe.new_data[2]
           keys == (DOMAIN old_dict) \cup (DOMAIN new_dict)
           both == (DOMAIN old_dict) \cap (DOMAIN new_dict)
           out == probe.out
       IN  /\ out.shown
           /\ \A col \in {out.old_col, out.new_col} :
                /\ KeysShown(col) = keys
                /\ Len(col) = Cardinality(keys)
                /\ \A i \in 1..Len(col) :
                    col[i].marked <=>
                        (col[i].key \in both /\ old_dict[col[i].key] # new_dict[col[i].key])
           /\ \A i \in 1..Len(out.old_col) :
                out.old_col[i].key \in DOMAIN old_dict
                    => out.old_col[i].value = old_dict[out.old_col[i].key]
           /\ \A i \in 1..Len(out.new_col) :
                out.new_col[i].key \in DOMAIN new_dict
                    => out.new_col[i].value = new_dict[out.new_col[i].key]

\* C20 happens: for old {Model No.: A1, HP: 5} and new {Model No.: A1, HP: 7}
\* HP is highlighted and Model No. is not
C20_Witness ==
    /\ probe.fn = "display_json_diff"
    /\ probe.old_data = J([k \in {"HP", "Model No."} |-> IF k = "HP" THEN S(<<"5">>) ELSE A1])
    /\ probe.new_data = J([k \in {"HP", "Model No."} |-> IF k = "HP" THEN S(<<"7">>) ELSE A1])
    /\ \A col \in {probe.out.old_col, probe.out.new_col} :
        /\ col[1].key = "HP" /\ col[1].marked
        /\ col[2].key = "Model No." /\ ~col[2].marked

\* the values a column of the comparison shows, by key
ValuesShown(col) == {<<col[i].key, col[i].value>> : i \in 1..Len(col)}

\* C21: display_json_diff raises nothing.  With both snapshots absent it
\* shows the note and no comparison.  With exactly one absent, each column
\* has a line for every key of the present snapshot and for no other key,
\* with "N/A" on the absent side and the snapshot's value on the other, and
\* no line is highlighted.
C21_MissingSnapshotTolerated ==
    probe.fn = "display_json_diff"
    => LET out == probe.out
           none_old == IsNull(probe.old_data)
           none_new == IsNull(probe.new_data)
           present == IF none_old THEN probe.new_data[2] ELSE probe.old_data[2]
           there == IF none_old THEN out.new_col ELSE out.old_col
           missing == IF none_old THEN out.old_col ELSE out.new_col
       IN  /\ ~out.raised
           /\ (none_old /\ none_new) => (~out.shown /\ out.old_col = <<>> /\ out.new_col = <<>>)
           /\ (none_old # none_new)
                => /\ out.shown
                   /\ ValuesShown(there) = {<<k, present[k]>> : k \in DOMAIN present}
                   /\ ValuesShown(missing) = {<<k, NA>> : k \in DOMAIN present}
                   /\ Len(there) = Cardinality(DOMAIN present)
                   /\ Len(missing) = Cardinality(DOMAIN present)
                   /\ \A i \in 1..Len(there) : ~there[i].marked /\ ~missing[i].marked

\* C21 happens: an INSERT entry, with no old snapshot and a new snapshot of
\* two keys, compared: "N/A" against each value
C21_Witness ==
    /\ probe.fn = "display_json_diff"
    /\ IsNull(probe.old_data)
    /\ probe.new_data = J([k \in {"HP", "Model No."} |-> IF k = "HP" THEN S(<<"7">>) ELSE A1])
    /\ probe.out.shown
    /\ probe.out.old_col[1].value = NA
    /\ probe.out.new_col[1].value = S(<<"7">>)

RECURSIVE Native(_)
\* the native equivalent of a value: a numpy number unwrapped, a missing
\* value (None, the float nan, the numpy nan) as None, lists and dicts value
\* by value, a native value as it is
Native(v) ==
    CASE IsDict(v) -> D([k \in DOMAIN v[2] |-> Native(v[2][k])])
      [] IsList(v) -> L([i \in 1..Len(v[2]) |-> Native(v[2][i])])
      [] IsNpInt(v) -> I(v[2])
      [] v \in {Null, NaN, NpNaN} -> Null
      [] OTHER -> v

\* C22: the payload log_database_change writes for a snapshot, parsed back
\* by the viewer, is a map with the keys of the snapshot whose values are the
\* native equivalents of the snapshot's values.
C22_RoundTrip ==
    probe.fn = "json_loads"
    => /\ probe.res = "ok"
       /\ probe.new_dict = [k \in DOMAIN probe.snapshot |-> Native(probe.snapshot[k])]

\* C23: for every raw field map, the record the CSV importer builds and
\* the record insert_pump_data builds have the same value in every field of
\* the map (the identifier insert_pump_data adds aside), and one fails
\* exactly when the other does.
C23_ImporterNormalizesAsInsert ==
    (probe.fn = "normalize" /\ probe.csv # NotBuilt /\ probe.ins # NotBuilt)
    => /\ probe.csv.res = probe.ins.res
       /\ \A k \in DOMAIN probe.row :
            /\ k \in DOMAIN probe.csv.record <=> k \in DOMAIN probe.ins.record
            /\ k \in DOMAIN probe.csv.record => probe.csv.record[k] = probe.ins.record[k]

\* C24: while the add-pump form has an empty Model No., every submission
\* returns the validation error without a call on the store: no identifier
\* is allocated, no insert is pending or applied, and the audit trail stays
\* empty.
C24_EmptyModelNoRejected ==
    (probe.fn = "add_pump_form" /\ probe.new_pump_data["Model No."] = S(<<>>))
    => /\ event.call = "none"
       /\ event.s # 0 => event.ret = Result(FALSE, "model_no_required")
       /\ \A s \in Sessions : fr[s].pc = "idle" /\ fr[s].new_id = 0
       /\ applied = EmptyBag
       /\ trail = <<>>
       /\ store \in InitialStores

\* C24 happens: a form with an empty Model No. was submitted and rejected
C24_Witness ==
    /\ probe.fn = "add_pump_form"
    /\ probe.new_pump_data["Model No."] = S(<<>>)
    /\ event.s = 1
    /\ event.ret.msg = "model_no_required"

\* bulk_delete_pumps has just returned
BulkReturned == event.ret.msg \in {"deleted_all_successfully", "deleted_with_errors"}

\* C25: the success flag bulk_delete_pumps returns is true exactly when no
\* identifier of the list failed (error_count = 0).
C25_BulkFlagIffNoErrors ==
    BulkReturned => (event.ret.ok <=> event.ret.error_count = 0)

\* C26: when update_pump_data, running alone, returns a failure, the
\* record it was called on is stored as it was when the call began, and no
\* UPDATE entry is missing for a change of the record.
C26_UpdateAllOrNothing ==
    [][(/\ fr[1].pc \in {"upd_trial", "upd_update"}
        /\ fr'[1].pc = "idle"
        /\ ~event'.ret.ok)
       => SelectEq(store', fr[1].db_id) = fr[1].seen]_vars

\* C27: when the select of update_pump_data or delete_pump_data succeeds,
\* the handler goes on only if the select found the record; otherwise it
\* returns the failure "not found" at once: it sends no update and no delete,
\* and the table and the audit trail are as they were.
C27_MissingRecordNotFound ==
    [][(/\ fr[1].pc = "idle"
        /\ event'.call = "select"
        /\ event'.ok
        /\ fr'[1].pc \notin {"blk_read", "blk_delete"}
        /\ event'.ret.msg \notin {"deleted_all_successfully", "deleted_with_errors"})
       => \/ /\ fr'[1].pc \in {"upd_trial", "upd_update", "del_delete"}
             /\ SelectEq(store, fr'[1].db_id) # <<>>
          \/ /\ event'.ret = Result(FALSE, "not_found")
             /\ fr'[1].pc = "idle"
             /\ store' = store
             /\ trail' = trail
             /\ applied' = applied]_vars

\* C27 happens: a handler was called with an identifier the table does not
\* hold, while it holds another record, and returned "not found"
C27_Witness ==
    /\ event.s = 1
    /\ event.ret.msg = "not_found"
    /\ store # <<>>
    /\ fr[1].pc = "idle"

\* the counts of bulk_delete_pumps in session s after a step of it
SuccessAfter(s) ==
    IF fr'[s].pc = "idle" THEN event'.ret.success_count ELSE fr'[s].success_count

ErrorsAfter(s) ==
    IF fr'[s].pc = "idle" THEN event'.ret.error_count ELSE fr'[s].error_count

\* C28: bulk_delete_pumps goes through its whole list: when it returns,
\* success_count + error_count is the length of the list.  An identifier is
\* counted as a success exactly when its delete removed a record from the
\* table, and then one DELETE entry is attempted for it; any other identifier
\* is counted as an error and the loop goes on.
C28_BulkCountsEachIdentifier ==
    [][\A s \in Sessions :
        /\ (event'.s = s /\ fr[s].pc = "blk_log")
            => /\ fr[s].pre # <<>>
               /\ event'.call = "audit_insert"
               /\ SuccessAfter(s) = fr[s].success_count + 1
               /\ ErrorsAfter(s) = fr[s].error_count
        /\ (event'.s = s /\ fr[s].pc = "blk_delete" /\ fr'[s].pc # "blk_log")
            => /\ store' = store
               /\ SuccessAfter(s) = fr[s].success_count
               /\ ErrorsAfter(s) = fr[s].error_count + 1
        /\ (event'.s = s /\ fr[s].pc = "blk_delete" /\ fr'[s].pc = "blk_log")
            => Len(store') = Len(store) - 1
        /\ (event'.s = s /\ fr[s].pc \in {"blk_read", "blk_delete", "blk_log"}
            /\ fr'[s].pc = "idle")
            => \E db_ids \in BulkInputs :
                event'.ret.success_count + event'.ret.error_count = Len(db_ids)]_vars

\* session s makes a call on the store in this step: a step of a handler
\* of the editor page, or the history page's read of the audit trail
StoreCallBy(s) ==
    \/ /\ event'.s = s
       /\ left' # left \/ fr'[s].pc # fr[s].pc \/ store' # store \/ trail' # trail
    \/ /\ probe' # probe
       /\ probe'.fn = "fetch_audit_data"
       /\ probe'.s = s

Occurrences(seq, id) == Cardinality({i \in 1..Len(seq) : seq[i].g.id = id})

\* C30: last_changes never holds more than 20 entries and is ordered newest
\* first; and when a fetch has completed, every entry the trail held when
\* the fetch sent its query is in last_changes exactly once, if it is among
\* the 20 newest of them.
C30_FeedShowsEveryEntryOnce ==
    /\ probe.fn = "fetch_recent_changes"
    /\ Len(probe.last_changes) <= KeepLimit
    /\ \A i, j \in 1..Len(probe.last_changes) :
        i < j => probe.last_changes[i].g.modified_at >= probe.last_changes[j].g.modified_at
    /\ (probe.fetched /\ probe.pc = "idle")
        => \A k \in 1..probe.at_query :
            k > probe.at_query - KeepLimit
                => Occurrences(probe.last_changes, trail[k].g.id) = 1

=============================================================================
